---- MODULE Spec2Model ----
(***************************************************************************)
(* Model of tic_tac_toe/game.py: the rules engine of a two-player          *)
(* Tic-Tac-Toe game.  A game is the dictionary built by start_new_game;    *)
(* move mutates it in place and raises InvalidMovement or GameOver.        *)
(*                                                                         *)
(* Python values are modelled as strings: a player identifier is a string, *)
(* Python's None is the reserved string "None", the empty cell is "-".     *)
(***************************************************************************)
EXTENDS Integers, Sequences, FiniteSets, TLC

VARIABLES
    game,       \* the game dictionary: player1, player2, board, next_turn, winner
    raised,     \* what the last call of move raised: [exc, msg]; exc = None for a normal return
    moves,      \* history: number of calls of move that placed a mark
    lastMover,  \* history: the player argument of the last call that placed a mark
    overSeen,   \* history: some call of move has raised GameOver
    accepted,   \* history: per board position, how many calls placed a mark there
    broken      \* history: the rules the arguments of the last call broke

vars == <<game, raised, moves, lastMover, overSeen, accepted, broken>>

----------------------------------------------------------------------------
(* Bounds of the model *)

\* the coordinate past the board that callers try; 0..2 are on the board
MaxCoord == 3

----------------------------------------------------------------------------
(* Python values *)

None == "None"

\* the empty-cell marker of the board literal
EmptyMark == "-"

\* truth value of a Python object in `if x:` -- None and the empty string are false
Truthy(v) == v \notin {None, ""}

\* '"{}" moves next.'.format(x) and '"{}" wins!'.format(x)
FormatMovesNext(x) == "\"" \o x \o "\" moves next."

FormatWins(x) == "\"" \o x \o "\" wins!"

MsgGameIsOver == "Game is over."

MsgOutOfRange == "Position out of range."

MsgTaken == "Position already taken."

MsgTied == "Game is tied!"

InvalidMovement == "InvalidMovement"

GameOver == "GameOver"

\* the (player1, player2) arguments games are started with: two ordinary
\* names, the same name twice, the empty string (a false value in Python) as
\* one player or as both, and "-" (which equals the empty-cell marker) as
\* either player
Pairings ==
    { <<"A", "B">>, <<"A", "A">>,
      <<"", "B">>, <<"", "">>,
      <<"-", "B">>, <<"A", "-">> }

\* an identifier no game is started with
Outsider == "Z"

\* the player arguments callers pass to move: both registered players and one
\* that is not registered
Callers(g) == {g.player1, g.player2, Outsider}

BoardIndex == 0 .. 2

\* the nine (row, column) pairs of the board
BoardPositions == BoardIndex \X BoardIndex

\* positions callers pass that are off the board: a row past the last, a
\* column past the last, both, a negative row, and tuples that are not pairs
OffBoardPositions ==
    { <<MaxCoord, 0>>, <<0, MaxCoord>>, <<MaxCoord, MaxCoord>>, <<-1, 0>>,
      <<0>>, <<0, 0, 1>> }

\* the position arguments callers pass to move
Positions == BoardPositions \cup OffBoardPositions

----------------------------------------------------------------------------
(* internal helpers *)

\* a variant that reads the cell with row and column swapped
_position_is_empty_in_board_transposed(position, board) ==
    board[position[2]][position[1]] = EmptyMark

\* a variant that takes every position for empty
_position_is_empty_in_board_always(position, board) == TRUE

_position_is_empty_in_board(position, board) ==
    board[position[1]][position[2]] = EmptyMark

valid_positions ==
    << <<0, 0>>, <<0, 1>>, <<0, 2>>,
       <<1, 0>>, <<1, 1>>, <<1, 2>>,
       <<2, 0>>, <<2, 1>>, <<2, 2>>,
       <<0, 0>>, <<1, 0>>, <<2, 0>>,
       <<0, 1>>, <<1, 1>>, <<2, 1>>,
       <<0, 2>>, <<1, 2>>, <<2, 2>>,
       <<0, 0>>, <<1, 1>>, <<2, 2>>,
       <<2, 0>>, <<1, 1>>, <<0, 2>> >>

\* a variant that only checks the upper end of the range
_position_is_valid_upper_only(position) ==
    Len(position) = 2 /\ position[1] <= 2 /\ position[2] <= 2

_position_is_valid(position) ==
    \E i \in 1 .. Len(valid_positions) : valid_positions[i] = position

\* a variant that takes any three marks for a winning combination
_is_winning_combination_any_mark(board, combination, player) ==
    \A k \in 1 .. Len(combination) :
        board[combination[k][1]][combination[k][2]] # EmptyMark

\* a variant that never finds the board full
_board_is_full_never(board) == FALSE

_board_is_full(board) ==
    \A i \in BoardIndex : \A j \in BoardIndex : board[i][j] # EmptyMark

_is_winning_combination(board, combination, player) ==
    \A k \in 1 .. Len(combination) :
        board[combination[k][1]][combination[k][2]] = player

combinations ==
    << << <<0, 0>>, <<0, 1>>, <<0, 2>> >>,
       << <<1, 0>>, <<1, 1>>, <<1, 2>> >>,
       << <<2, 0>>, <<2, 1>>, <<2, 2>> >>,
       << <<0, 0>>, <<1, 0>>, <<2, 0>> >>,
       << <<0, 1>>, <<1, 1>>, <<2, 1>> >>,
       << <<0, 2>>, <<1, 2>>, <<2, 2>> >>,
       << <<0, 0>>, <<1, 1>>, <<2, 2>> >>,
       << <<2, 0>>, <<1, 1>>, <<0, 2>> >> >>

_check_winning_combinations(board, player) ==
    IF \E n \in 1 .. Len(combinations) :
           _is_winning_combination(board, combinations[n], player)
    THEN player
    ELSE None

----------------------------------------------------------------------------
(* public interface *)

\* a variant that gives the first turn to player2
start_new_game_player2_first(player1, player2) ==
    [ player1   |-> player1,
      player2   |-> player2,
      board     |-> [i \in BoardIndex |-> [j \in BoardIndex |-> EmptyMark]],
      next_turn |-> player2,
      winner    |-> None ]

start_new_game(player1, player2) ==
    [ player1   |-> player1,
      player2   |-> player2,
      board     |-> [i \in BoardIndex |-> [j \in BoardIndex |-> EmptyMark]],
      next_turn |-> player1,
      winner    |-> None ]

get_winner(g) == g.winner

get_next_turn(g) == g.next_turn

\* a variant that forgets the full board
game_is_over_winner_only(g) == Truthy(g.winner)

\* the test of line 162: the game has a winner or the board is full
game_is_over(g) == Truthy(g.winner) \/ _board_is_full(g.board)

\* a variant whose 'moves next' message names the caller
validate_names_caller(g, player, position) ==
    IF game_is_over(g)
    THEN MsgGameIsOver
    ELSE IF player # get_next_turn(g)
    THEN FormatMovesNext(player)
    ELSE IF ~ _position_is_valid(position)
    THEN MsgOutOfRange
    ELSE IF ~ _position_is_empty_in_board(position, g.board)
    THEN MsgTaken
    ELSE None

\* a variant that lets any player move
validate_any_player(g, player, position) ==
    IF game_is_over(g)
    THEN MsgGameIsOver
    ELSE IF ~ _position_is_valid(position)
    THEN MsgOutOfRange
    ELSE IF ~ _position_is_empty_in_board(position, g.board)
    THEN MsgTaken
    ELSE None

\* a variant that checks the position before the player
validate_range_first(g, player, position) ==
    IF game_is_over(g)
    THEN MsgGameIsOver
    ELSE IF ~ _position_is_valid(position)
    THEN MsgOutOfRange
    ELSE IF player # get_next_turn(g)
    THEN FormatMovesNext(g.next_turn)
    ELSE IF ~ _position_is_empty_in_board(position, g.board)
    THEN MsgTaken
    ELSE None

\* the four checks of move, in the order of the code: the message of the
\* InvalidMovement the call raises, or None when the movement is legal
validate(g, player, position) ==
    IF game_is_over(g)
    THEN MsgGameIsOver
    ELSE IF player # get_next_turn(g)
    THEN FormatMovesNext(g.next_turn)
    ELSE IF ~ _position_is_valid(position)
    THEN MsgOutOfRange
    ELSE IF ~ _position_is_empty_in_board(position, g.board)
    THEN MsgTaken
    ELSE None

\* line 189: the position is marked with the player
mark(g, player, position) ==
    [g EXCEPT !.board[position[1]][position[2]] = player]

\* a variant that leaves next_turn as it was
record_winner_keeps_turn(g, winner) == [g EXCEPT !.winner = winner]

\* lines 203-204: the book-keeping of a winning movement
record_winner(g, winner) == [g EXCEPT !.winner = winner, !.next_turn = None]

\* a variant that leaves next_turn as it was
record_tie_keeps_turn(g) == g

\* line 207: the book-keeping of a tie
record_tie(g) == [g EXCEPT !.next_turn = None]

\* a variant that always hands the turn to player2
swap_next_turn_to_player2(g) == [g EXCEPT !.next_turn = g.player2]

\* line 210: the next player is swapped
swap_next_turn(g) ==
    [g EXCEPT !.next_turn = IF g.next_turn = g.player2 THEN g.player1 ELSE g.player2]

\* lines 189-210: a legal movement is made and the end of the game is checked
make_movement(g, player, position) ==
    LET g1     == mark(g, player, position)
        winner == _check_winning_combinations(g1.board, player)
    IN  IF Truthy(winner)
        THEN [game |-> record_winner(g1, winner), exc |-> GameOver,
              msg |-> FormatWins(winner)]
        ELSE IF _board_is_full(g1.board)
        THEN [game |-> record_tie(g1), exc |-> GameOver, msg |-> MsgTied]
        ELSE [game |-> swap_next_turn(g1), exc |-> None, msg |-> None]

\* a variant that marks the position before it checks the movement
move_marks_before_checks(g, player, position) ==
    LET rejection == validate(g, player, position) IN
    IF rejection # None
    THEN [game |-> IF _position_is_valid(position)
                   THEN mark(g, player, position) ELSE g,
          exc |-> InvalidMovement, msg |-> rejection]
    ELSE make_movement(g, player, position)

\* the effect of move(g, player, position): the game as the call leaves it and
\* the exception it raises (exc = None, msg = None when it returns normally)
move(g, player, position) ==
    LET rejection == validate(g, player, position) IN
    IF rejection # None
    THEN [game |-> g, exc |-> InvalidMovement, msg |-> rejection]
    ELSE make_movement(g, player, position)

----------------------------------------------------------------------------
(* the state machine: a caller starts a game and calls move any number of  *)
(* times with any player and any position                                  *)

\* a call of move placed a mark: it returned normally or raised GameOver
Placed(out) == out.exc # InvalidMovement

\* the rules a call's arguments break in game g, each rule taken on its own
Broken(g, player, position) ==
    [ over   |-> (g.winner # None
                  \/ \A q \in BoardPositions : g.board[q[1]][q[2]] # EmptyMark),
      player |-> player # g.next_turn,
      range  |-> position \notin BoardPositions,
      taken  |-> (position \in BoardPositions
                  /\ g.board[position[1]][position[2]] # EmptyMark) ]

NothingBroken == [over |-> FALSE, player |-> FALSE, range |-> FALSE, taken |-> FALSE]

Init ==
    /\ \E pairing \in Pairings :
           game = start_new_game(pairing[1], pairing[2])
    /\ raised = [exc |-> None, msg |-> None]
    /\ moves = 0
    /\ lastMover = None
    /\ overSeen = FALSE
    /\ accepted = [q \in BoardPositions |-> 0]
    /\ broken = NothingBroken

Move(player, position) ==
    \E out \in {move(game, player, position)} :
    /\ game' = out.game
    /\ raised' = [exc |-> out.exc, msg |-> out.msg]
    /\ moves' = IF Placed(out) THEN moves + 1 ELSE moves
    /\ lastMover' = IF Placed(out) THEN player ELSE lastMover
    /\ overSeen' = (overSeen \/ out.exc = GameOver)
    /\ accepted' = IF Placed(out)
                   THEN [accepted EXCEPT ![position] = @ + 1]
                   ELSE accepted
    /\ broken' = Broken(game, player, position)

Next == \E player \in Callers(game), position \in Positions : Move(player, position)

Spec == Init /\ [][Next]_vars

\* the player whose turn it is calls move for a position of the board and
\* places a mark
LegalMove ==
    /\ moves' = moves + 1
    /\ \E position \in BoardPositions : Move(get_next_turn(game), position)

\* the callers keep making legal movements while one is possible
FairSpec == Spec /\ WF_vars(LegalMove)

----------------------------------------------------------------------------
(* Vocabulary of the properties *)

\* the last call of move was refused with this message
Rejected(msg) == raised = [exc |-> InvalidMovement, msg |-> msg]

\* the last call of move placed a mark
JustPlaced == moves > 0 /\ raised.exc # InvalidMovement

NoEmptyCell == \A q \in BoardPositions : game.board[q[1]][q[2]] # EmptyMark

\* the three rows, the three columns and the two diagonals
Lines ==
    {{<<r, c>> : c \in BoardIndex} : r \in BoardIndex}
        \cup {{<<r, c>> : r \in BoardIndex} : c \in BoardIndex}
        \cup {{<<i, i>> : i \in BoardIndex}, {<<i, 2 - i>> : i \in BoardIndex}}

\* the registered player that is not p
OtherPlayer(p) == IF p = game.player1 THEN game.player2 ELSE game.player1

\* the last call of move placed a mark and returned normally: the game goes on
JustContinued == moves > 0 /\ raised.exc = None

\* player p's identifier is in all three cells of some line
HoldsLine(p) == \E l \in Lines : \A q \in l : game.board[q[1]][q[2]] = p

----------------------------------------------------------------------------
(* C1: once a call of move has raised GameOver (a win or a tie), every     *)
(* later call, by any player and for any position, raises                  *)
(* InvalidMovement('Game is over.') and changes nothing: no mark is placed *)
(* and the game is left as it was.                                         *)
C1_TerminalRejectsEveryMove ==
    [][overSeen => /\ raised' = [exc |-> InvalidMovement, msg |-> MsgGameIsOver]
                   /\ game' = game
                   /\ moves' = moves]_vars

\* after a GameOver, a call whose position is on the board and empty was
\* refused with 'Game is over.'
C1_Witness ==
    /\ overSeen
    /\ Rejected(MsgGameIsOver)
    /\ ~ broken.range /\ ~ broken.taken

(* C2: in every reachable state, if winner is set (not None) then          *)
(* next_turn is None.                                                      *)
C2_WinnerImpliesNoNextTurn == game.winner # None => game.next_turn = None

C2_Witness == game.winner # None /\ raised.exc = GameOver /\ game.next_turn = None

(* C3: in every reachable state, if the board has no empty cell and winner *)
(* is None then next_turn is None.                                         *)
C3_FullBoardNoWinnerImpliesNoNextTurn ==
    (NoEmptyCell /\ game.winner = None) => game.next_turn = None

C3_Witness ==
    /\ NoEmptyCell /\ game.winner = None /\ game.next_turn = None
    /\ raised = [exc |-> GameOver, msg |-> MsgTied]

(* C4: a cell in which a call of move placed a mark keeps that mark in     *)
(* every later state: no call overwrites it or resets it to empty.         *)
C4_MarkedCellNeverChanges ==
    [][\A q \in BoardPositions :
          (accepted[q] > 0 \/ game.board[q[1]][q[2]] # EmptyMark)
              => game'.board[q[1]][q[2]] = game.board[q[1]][q[2]]]_vars

\* the player whose turn it is tried a marked cell and was refused
C4_Witness == Rejected(MsgTaken) /\ broken.taken /\ moves > 0

(* C5 as stated: after a movement that leaves the game going, next_turn   *)
(* is the other player, and a further call by the player who just moved,   *)
(* for any position, raises InvalidMovement naming the other player.       *)
C5_TurnAlternates ==
    JustContinued =>
        /\ game.next_turn = OtherPlayer(lastMover)
        /\ \A position \in Positions :
              move(game, lastMover, position) =
                  [game |-> game, exc |-> InvalidMovement,
                   msg |-> FormatMovesNext(OtherPlayer(lastMover))]

(* C5 as amended: the same, in a game started with two different players.  *)
C5_TurnAlternatesDistinctPlayers ==
    game.player1 # game.player2 => C5_TurnAlternates

\* player2 has just moved in a game of two different players, and the turn is
\* back with player1
C5_Witness ==
    /\ game.player1 # game.player2
    /\ JustContinued /\ moves >= 2
    /\ lastMover = game.player2 /\ game.next_turn = game.player1

(* C6: a call of move is refused for the first rule it breaks in the order *)
(* game over, wrong player, position out of range, position taken; it      *)
(* places a mark exactly when it breaks none.                              *)
C6_FirstFailingCheckWins ==
    IF broken.over THEN Rejected(MsgGameIsOver)
    ELSE IF broken.player THEN Rejected(FormatMovesNext(game.next_turn))
    ELSE IF broken.range THEN Rejected(MsgOutOfRange)
    ELSE IF broken.taken THEN Rejected(MsgTaken)
    ELSE raised.exc # InvalidMovement

\* in a game that goes on, a call by the wrong player with a position off the
\* board was refused with the 'moves next' message
C6_Witness ==
    /\ ~ broken.over /\ broken.player /\ broken.range
    /\ Rejected(FormatMovesNext(game.next_turn))

(* C7: when the movement of player p leaves p's identifier in all three    *)
(* cells of a line, winner is p, next_turn is None, the call raised        *)
(* GameOver('"p" wins!') and get_winner returns p.                         *)
C7_CompletedLineWins ==
    (JustPlaced /\ HoldsLine(lastMover)) =>
        /\ game.winner = lastMover
        /\ game.next_turn = None
        /\ raised = [exc |-> GameOver, msg |-> FormatWins(lastMover)]
        /\ get_winner(game) = lastMover

(* C8: when a movement fills the last empty cell and neither player holds  *)
(* a complete line, the call raised GameOver('Game is tied!'), next_turn   *)
(* is None and winner is None.                                             *)
C8_FullBoardWithoutLineIsTie ==
    (JustPlaced /\ NoEmptyCell
        /\ ~ HoldsLine(game.player1) /\ ~ HoldsLine(game.player2)) =>
        /\ raised = [exc |-> GameOver, msg |-> MsgTied]
        /\ game.next_turn = None
        /\ game.winner = None

C8_Witness ==
    /\ JustPlaced /\ NoEmptyCell /\ moves = 9
    /\ ~ HoldsLine(game.player1) /\ ~ HoldsLine(game.player2)
    /\ raised.msg = MsgTied

(* C9: no position of the board takes a mark more than once in a game;    *)
(* while the game goes on, a call by the player whose turn it is places a  *)
(* mark at a position that took none, and for a position that took one it  *)
(* raises InvalidMovement('Position already taken.') and changes nothing.  *)
C9_PositionAcceptedOnce ==
    \A q \in BoardPositions :
        /\ accepted[q] <= 1
        /\ (accepted[q] = 0 /\ game.next_turn # None) =>
              move(game, game.next_turn, q).exc # InvalidMovement
        /\ (accepted[q] = 1 /\ game.next_turn # None) =>
              move(game, game.next_turn, q) =
                  [game |-> game, exc |-> InvalidMovement, msg |-> MsgTaken]

\* the player whose turn it is called move for a position that had taken a
\* mark and was refused
C9_Witness ==
    /\ Rejected(MsgTaken) /\ ~ broken.player
    /\ \E q \in BoardPositions : accepted[q] = 1

(* C10: the range check passes exactly the nine pairs of {0,1,2} x {0,1,2}; *)
(* while the game goes on a call by the player whose turn it is raises      *)
(* InvalidMovement('Position out of range.') exactly when the position is   *)
(* not one of them.                                                         *)
C10_RangeCheck ==
    /\ \A position \in Positions :
          _position_is_valid(position) <=> position \in BoardPositions
    /\ (~ broken.over /\ ~ broken.player) =>
          (broken.range <=> Rejected(MsgOutOfRange))
    /\ Rejected(MsgOutOfRange) => broken.range

\* the player whose turn it is passed a position off the board and was refused
C10_Witness ==
    /\ Rejected(MsgOutOfRange)
    /\ broken.range /\ ~ broken.player /\ ~ broken.over

(* The three states of a game, in the terms of its fields *)

Registered == {game.player1, game.player2}

Ongoing == game.winner = None /\ game.next_turn \in Registered /\ ~ NoEmptyCell

Won == game.winner # None /\ game.next_turn = None

Tied == game.winner = None /\ NoEmptyCell /\ game.next_turn = None

(* C11: in a game that goes on, a call whose player is not next_turn (the  *)
(* other registered player or an unregistered one) raises InvalidMovement  *)
(* with the 'moves next' message naming next_turn, which is a registered   *)
(* player and not the caller.                                              *)
C11_WrongPlayerNamesNextTurn ==
    (~ broken.over /\ broken.player) =>
        /\ raised.exc = InvalidMovement
        /\ raised.msg = FormatMovesNext(get_next_turn(game))
        /\ get_next_turn(game) \in Registered

\* after at least one movement, a wrong player's call for an empty position of
\* the board was refused with the message naming next_turn
C11_Witness ==
    /\ moves > 0 /\ ~ broken.over /\ broken.player
    /\ ~ broken.range /\ ~ broken.taken
    /\ raised.msg = FormatMovesNext(game.next_turn)

(* C12: a game starts Ongoing; in every state exactly one of Ongoing, Won  *)
(* and Tied holds; a call of move leaves a Won or Tied game as it is, so   *)
(* the only transitions are out of Ongoing.                                *)
C12_ThreeStates ==
    /\ [](moves = 0 => Ongoing)
    /\ []((Ongoing /\ ~ Won /\ ~ Tied) \/ (Won /\ ~ Ongoing /\ ~ Tied)
            \/ (Tied /\ ~ Ongoing /\ ~ Won))
    /\ [][(Won \/ Tied) => game' = game]_vars

\* a tied game in which a further call was tried and refused
C12_Witness == Tied /\ overSeen /\ Rejected(MsgGameIsOver) /\ moves = 9

(* C13: a new game has nine empty cells, next_turn = player1 and winner =   *)
(* None, and the first movement of a game is made by player1.              *)
C13_NewGame ==
    /\ \A pairing \in Pairings :
          LET g == start_new_game(pairing[1], pairing[2]) IN
          /\ \A q \in BoardPositions : g.board[q[1]][q[2]] = EmptyMark
          /\ g.next_turn = pairing[1] /\ g.winner = None
          /\ g.player1 = pairing[1] /\ g.player2 = pairing[2]
    /\ moves = 0 =>
          /\ \A q \in BoardPositions : game.board[q[1]][q[2]] = EmptyMark
          /\ game.next_turn = game.player1 /\ game.winner = None
    /\ moves = 1 => lastMover = game.player1

\* the first movement of a game of two different players was made
C13_Witness ==
    moves = 1 /\ lastMover = game.player1 /\ game.player1 # game.player2

(* C14: next_turn is player1, player2 or None; no call by an identifier    *)
(* that is not registered places a mark (not even a call passing None once *)
(* next_turn is None); every cell is empty or holds player1 or player2.    *)
C14_OnlyRegisteredPlayersMove ==
    /\ game.next_turn \in Registered \cup {None}
    /\ lastMover \in Registered \cup {None}
    /\ moves > 0 => lastMover \in Registered
    /\ game.next_turn = None => validate(game, None, <<0, 0>>) = MsgGameIsOver
    /\ \A q \in BoardPositions :
          game.board[q[1]][q[2]] \in Registered \cup {EmptyMark}

\* marks are on the board and a call by a player other than next_turn for a
\* marked cell was refused
C14_Witness ==
    /\ moves >= 2 /\ broken.player /\ broken.taken /\ ~ broken.over
    /\ raised.exc = InvalidMovement

(* C15: a call of move that raises InvalidMovement, for any of the four    *)
(* reasons, leaves the game (board, next_turn, winner, player1, player2)   *)
(* as it was.                                                              *)
C15_RejectionChangesNothing ==
    [][raised'.exc = InvalidMovement => game' = game]_vars

\* a call was refused in a game that goes on with marks on the board
C15_Witness ==
    /\ raised.exc = InvalidMovement /\ moves > 0 /\ game.next_turn # None
    /\ broken.taken

\* how many of the 8 combinations the scan finds marked by the player who
\* moved last
MatchCount ==
    Cardinality({n \in 1 .. Len(combinations) :
                    _is_winning_combination(game.board, combinations[n], lastMover)})

\* how many cells of the board hold identifier p
MarkCount(p) == Cardinality({q \in BoardPositions : game.board[q[1]][q[2]] = p})

\* the game was started with two different identifiers, neither of them the
\* empty-cell marker
DistinctPlayersNoEmptyMark ==
    game.player1 # game.player2 /\ EmptyMark \notin Registered

(* C16 as stated: after a legal movement at most one of the 8 combinations *)
(* is fully marked by the player who moved.                                *)
C16_AtMostOneMatch == JustPlaced => MatchCount <= 1

(* C16 as amended: after a legal movement in a game of two different       *)
(* players, neither of them '-', at most two of the 8 combinations are     *)
(* fully marked by the player who moved.                                   *)
C16_AtMostTwoMatches ==
    (JustPlaced /\ DistinctPlayersNoEmptyMark) => MatchCount <= 2

\* one mark completed two combinations at once and won the game
C16_Witness ==
    /\ JustPlaced /\ DistinctPlayersNoEmptyMark
    /\ MatchCount = 2 /\ game.winner = lastMover
    /\ raised.exc = GameOver

(* C17: when a movement fills the last empty cell and the player who moved *)
(* holds a complete combination, the outcome is the win: winner is that    *)
(* player and the call raised GameOver with the 'wins' message, not the    *)
(* tie.                                                                    *)
C17_WinBeforeTie ==
    (JustPlaced /\ NoEmptyCell /\ HoldsLine(lastMover)) =>
        /\ game.winner = lastMover
        /\ raised = [exc |-> GameOver, msg |-> FormatWins(lastMover)]
        /\ raised.msg # MsgTied

(* C18: in a game of two different players, winner = p exactly when some   *)
(* combination is fully marked by p; at most one player holds a complete   *)
(* combination; a winner is the player who made the last movement.         *)
C18_WinnerIffLine ==
    game.player1 # game.player2 =>
        /\ \A p \in Registered : game.winner = p <=> HoldsLine(p)
        /\ ~ (HoldsLine(game.player1) /\ HoldsLine(game.player2))
        /\ game.winner # None => game.winner = lastMover

C20_NineMovesAndNoEarlyWin ==
    /\ moves <= 9
    /\ moves = 9 => (overSeen /\ game.next_turn = None)
    /\ game.winner # None => moves >= 5

(* C20 as amended: a game takes at most 9 movements and is over after the  *)
(* ninth; a game of two different players, neither of them '-', is not won *)
(* before the fifth movement; and when the callers keep making legal       *)
(* movements a GameOver is eventually raised.                              *)
C20_TerminatesWithinNineMoves ==
    /\ [](/\ moves <= 9
          /\ moves = 9 => (overSeen /\ game.next_turn = None)
          /\ (DistinctPlayersNoEmptyMark /\ game.winner # None) => moves >= 5)
    /\ <>overSeen

\* a game of two different players was won with the fifth movement
C20_Witness ==
    /\ DistinctPlayersNoEmptyMark /\ moves = 5
    /\ game.winner = game.player1 /\ raised.exc = GameOver

====
